---- MODULE Spec2Model ----
(***************************************************************************)
(* Model of src/src/region-active-effects.js: four region behaviors of a   *)
(* tabletop host (StatusEffect, StatusEffectEvents, ActiveEffect,          *)
(* ActiveEffectEvents).  One region carries one behavior; region events    *)
(* are delivered to every connected participant, each of which runs the    *)
(* behavior's handler.  A handler runs synchronously up to its first       *)
(* await (fromUuid); its continuation is a later step.  The document calls *)
(* (create / update / delete / toggleStatusEffect) are not awaited: a call *)
(* puts a request in the host's queue and the host commits it later.       *)
(***************************************************************************)
EXTENDS Integers, Sequences, FiniteSets, TLC

\* ---------------------------------------------------------------- bounds
MaxEvents == 2      \* region events dispatched in one run

\* ------------------------------------------------------------ value sets
NULL == "null"                  \* null / undefined
Users == {"gm", "pl"}           \* participants of the session: a GM and a player
StatusIds == {"S"}
Names == {"n1", "n2"}           \* effect names on the actor
CfgNames == {"n1"}              \* names a designer enters in the name field
Uuids == {"T1", "Tx"}           \* T1 resolves to a template, Tx resolves to nothing
EventNames == {"tokenEnter", "tokenExit"}
Types == {"statusEffect", "statusEffectEvents", "activeEffect", "activeEffectEvents"}
SEEActions == {"toggle", "apply", "remove"}
AEEActions == {"add", "resetDuration", "enable", "disable", "delete"}
BehaviorUuid == "B1"            \* behavior.uuid of the region's behavior
OtherOrigins == {"B2"}          \* origin of an effect another behavior instance made

VARIABLES
  connected,   \* the participants of the session that are connected (fixed during a run)
  behavior,    \* the region's behavior: its type and its persisted fields
  sheetError,  \* the field validateJoint named when it rejected the last save, else NULL
               \* (the sheet's notification; gone by the time of the next event)
  worldTime,   \* game.time.worldTime
  effects,     \* actor.effects, in insertion order
  statuses,    \* the actor's status conditions: statusId -> "off" | "on" | "overlay"
  inflight,    \* region events dispatched and not yet retired, oldest first
  tasks,       \* handler continuations suspended at `await fromUuid(...)`
  pending,     \* host requests issued (un-awaited document calls), oldest first
  thrown,      \* number of exceptions / rejected promises raised by the module's code
  nextId,      \* next effect id the host hands out
  nEvents      \* number of events dispatched so far

vars == <<connected, behavior, sheetError, worldTime, effects, statuses, inflight,
          tasks, pending, thrown, nextId, nEvents>>

\* --------------------------------------------------------------- helpers
Min(S) == CHOOSE x \in S : \A y \in S : x <= y

Remove(seq, i) == [j \in 1..(Len(seq) - 1) |-> IF j < i THEN seq[j] ELSE seq[j + 1]]

\* game.users.activeGM: the connected GM, or null
ActiveGM(conn) ==
  IF "gm" \in conn THEN "gm" ELSE NULL

\* fromUuid(uuid): does the reference resolve to a document?
Resolves(uuid) == uuid = "T1"

\* the template document fromUuid("T1") returns (an ActiveEffect on some item)
Template(uuid) ==
  [name |-> "n1", origin |-> NULL, disabled |-> TRUE, transfer |-> TRUE, start |-> 0]

\* event.data?.token?.actor
GetActor(ev) ==
  IF ~ev.hasData THEN NULL ELSE IF ~ev.hasToken THEN NULL ELSE ev.actor

\* Variant of the find whose predicate accepts every effect.
FindByOriginAny(effs, origin) ==
  IF effs = <<>> THEN 0 ELSE 1

\* actor.effects.find((e) => e.origin === origin): index of the first match, 0 when none
FindByOrigin(effs, origin) ==
  LET I == {i \in DOMAIN effs : effs[i].origin = origin}
  IN IF I = {} THEN 0 ELSE Min(I)

\* actor.effects.getName(name): index of the first effect of that name, 0 when none
GetName(effs, name) ==
  LET I == {i \in DOMAIN effs : effs[i].name = name}
  IN IF I = {} THEN 0 ELSE Min(I)

\* ------------------------------------------------------------- requests
\* One shape for every host request; fields a kind does not use hold NULL / -1 / 0.
\* by is the participant that issues the request, eid the event it handles; gm is
\* bookkeeping: game.users.activeGM as `by` saw it when the event reached it.
\*   toggle: statusId, active ("true" | "false" | "undef"), overlay
\*   update: id, disabled ("true" | "false" | "keep"), start (-1: not in the patch)
\*   delete: id
\*   create: name, disabled, transfer, origin, start
ToggleReq(by, eid, statusId, active, overlay) ==
  [kind |-> "toggle", by |-> by, eid |-> eid, id |-> 0, statusId |-> statusId,
   active |-> active, overlay |-> overlay, disabled |-> "keep", start |-> -1,
   name |-> NULL, transfer |-> FALSE, origin |-> NULL, gm |-> NULL]

UpdateReq(by, eid, id, disabled, start) ==
  [kind |-> "update", by |-> by, eid |-> eid, id |-> id, statusId |-> NULL,
   active |-> "undef", overlay |-> FALSE, disabled |-> disabled, start |-> start,
   name |-> NULL, transfer |-> FALSE, origin |-> NULL, gm |-> NULL]

DeleteReq(by, eid, id) ==
  [kind |-> "delete", by |-> by, eid |-> eid, id |-> id, statusId |-> NULL,
   active |-> "undef", overlay |-> FALSE, disabled |-> "keep", start |-> -1,
   name |-> NULL, transfer |-> FALSE, origin |-> NULL, gm |-> NULL]

CreateReq(by, eid, data) ==
  [kind |-> "create", by |-> by, eid |-> eid, id |-> 0, statusId |-> NULL,
   active |-> "undef", overlay |-> FALSE,
   disabled |-> IF data.disabled THEN "true" ELSE "false", start |-> data.start,
   name |-> data.name, transfer |-> data.transfer, origin |-> data.origin,
   gm |-> NULL]

\* ------------------------------------------------------------------ Init
\* The fields of a freshly attached behavior of each type (the schema's initial values).
InitialBehavior(type) ==
  [type |-> type, statusId |-> NULL, overlay |-> FALSE,
   action |-> IF type = "statusEffectEvents" THEN "toggle" ELSE NULL,
   uuid |-> NULL, disable |-> FALSE, name |-> NULL]

\* What the actor carries before the region's behavior acts: nothing, or an effect put
\* there by another behavior instance (cloned from the template, or of another name).
\* The two status behaviors never read actor.effects.
InitialEffects(type) ==
  IF type \in {"activeEffect", "activeEffectEvents"}
    THEN {<<>>} \cup
         {<<[id |-> 1, name |-> n, origin |-> o, disabled |-> FALSE, transfer |-> FALSE,
             start |-> 0]>> : n \in Names, o \in OtherOrigins}
    ELSE {<<>>}

Init ==
  /\ connected \in (SUBSET Users) \ {{}}
  /\ behavior \in {InitialBehavior(t) : t \in Types}
  /\ sheetError = NULL
  /\ worldTime = 0
  /\ effects \in InitialEffects(behavior.type)
  /\ statuses = [s \in StatusIds |-> "off"]
  /\ inflight = <<>>
  /\ tasks = {}
  /\ pending = <<>>
  /\ thrown = 0
  /\ nextId = Len(effects) + 1
  /\ nEvents = 0

\* ---------------------------------------------------- configuration saves
\* The designer edits the behavior on its sheet between events.
\* StatusEffectRegionBehaviorType.defineSchema: statusId nullable, overlay boolean
SaveStatusEffect(statusId, overlay) ==
  /\ behavior.type = "statusEffect"
  /\ inflight = <<>>
  /\ behavior' = [behavior EXCEPT !.statusId = statusId, !.overlay = overlay]
  /\ behavior' # behavior
  /\ sheetError' = NULL
  /\ UNCHANGED <<connected, worldTime, effects, statuses, inflight, tasks, pending,
                 thrown, nextId, nEvents>>

\* StatusEffectEventsRegionBehaviorType.defineSchema: action is one of the three choices
SaveStatusEffectEvents(statusId, action, overlay) ==
  /\ behavior.type = "statusEffectEvents"
  /\ inflight = <<>>
  /\ behavior' = [behavior EXCEPT !.statusId = statusId, !.action = action,
                                  !.overlay = overlay]
  /\ behavior' # behavior
  /\ sheetError' = NULL
  /\ UNCHANGED <<connected, worldTime, effects, statuses, inflight, tasks, pending,
                 thrown, nextId, nEvents>>

\* ActiveEffectRegionBehaviorType.defineSchema: uuid nullable reference, disable boolean
SaveActiveEffect(uuid, disable) ==
  /\ behavior.type = "activeEffect"
  /\ inflight = <<>>
  /\ behavior' = [behavior EXCEPT !.uuid = uuid, !.disable = disable]
  /\ behavior' # behavior
  /\ sheetError' = NULL
  /\ UNCHANGED <<connected, worldTime, effects, statuses, inflight, tasks, pending,
                 thrown, nextId, nEvents>>

\* Variant of validateJoint without the check of the name field.
validateJointUuidOnly(data) ==
  IF data.action \in {"add", "resetDuration"} /\ data.uuid = NULL THEN "uuid"
  ELSE NULL

\* ActiveEffectEventsRegionBehaviorType.validateJoint(data): NULL when it returns,
\* otherwise the field named by the Error it throws.  !x is true of null, undefined and "".
validateJoint(data) ==
  IF data.action \in {"add", "resetDuration"} /\ data.uuid = NULL THEN "uuid"
  ELSE IF data.action \in {"enable", "disable", "delete"} /\ data.name = NULL THEN "name"
  ELSE NULL

\* The sheet saves an ActiveEffectEvents configuration: the host runs validateJoint on
\* the submitted data and persists it only when validateJoint does not throw.
SaveActiveEffectEvents(action, uuid, name) ==
  LET data == [action |-> action, uuid |-> uuid, name |-> name]
      err == validateJoint(data)
  IN /\ behavior.type = "activeEffectEvents"
     /\ inflight = <<>>
     /\ IF err = NULL
          THEN /\ behavior' = [behavior EXCEPT !.action = action, !.uuid = uuid,
                                               !.name = name]
               /\ sheetError' = NULL
          ELSE /\ behavior' = behavior
               /\ sheetError' = err
     /\ <<behavior', sheetError'>> # <<behavior, sheetError>>
     /\ UNCHANGED <<connected, worldTime, effects, statuses, inflight, tasks, pending,
                    thrown, nextId, nEvents>>

\* ------------------------------------------------------------- dispatch
\* The events a behavior's handlers are bound to: the static events map of the two
\* enter/exit behaviors, the configured events field (here: token enter) of the others.
Subscribed(type) ==
  IF type \in {"statusEffect", "activeEffect"} THEN EventNames ELSE {"tokenEnter"}

\* The host dispatches a region event caused by `user` to every connected participant;
\* the world clock has advanced since the previous event.
\* Bookkeeping: writes is the number of requests issued for the event so far.
Dispatch(name, user, actor) ==
  /\ nEvents < MaxEvents
  /\ user \in connected
  /\ name \in Subscribed(behavior.type)
  /\ nEvents' = nEvents + 1
  /\ worldTime' = worldTime + 1
  /\ sheetError' = NULL
  /\ inflight' = Append(inflight,
       [eid |-> nEvents + 1, name |-> name, user |-> user, actor |-> actor,
        todo |-> connected,
        writes |-> 0])
  /\ UNCHANGED <<connected, behavior, effects, statuses, tasks, pending, thrown,
                 nextId>>

\* The event object a handler receives for the dispatched event ev.  An event with a
\* target carries data.token.actor; one without may lack data, data.token or
\* data.token.actor.
EventObjects(ev) ==
  LET shapes == IF ev.actor = NULL
                  THEN {<<FALSE, FALSE>>, <<TRUE, FALSE>>, <<TRUE, TRUE>>}
                  ELSE {<<TRUE, TRUE>>}
  IN {[eid |-> ev.eid, name |-> ev.name, user |-> ev.user, actor |-> ev.actor,
       hasData |-> sh[1], hasToken |-> sh[2]] : sh \in shapes}

\* The oldest event participant p has not handled yet (0 when none): the host delivers
\* events to a participant in order.
NextFor(p) ==
  LET I == {i \in DOMAIN inflight : p \in inflight[i].todo}
  IN IF I = {} THEN 0 ELSE Min(I)

\* The host retires the oldest event once every participant handled it and none of its
\* handlers is still suspended.
Retire ==
  /\ inflight # <<>>
  /\ inflight[1].todo = {}
  /\ \A t \in tasks : t.eid # inflight[1].eid
  /\ \A k \in DOMAIN pending : pending[k].eid # inflight[1].eid
  /\ inflight' = Tail(inflight)
  /\ UNCHANGED <<connected, behavior, sheetError, worldTime, effects, statuses, tasks,
                 pending, thrown, nextId, nEvents>>

\* ------------------------------------------------------------- handlers
\* What one run of a handler (or of its continuation) does: the host requests it issues,
\* in order, the continuations it leaves suspended at an await, and whether it throws
\* (a synchronous throw of an async function: a rejected promise nobody handles).
Nothing == [reqs |-> <<>>, spawn |-> {}, throws |-> 0]
Issue(req) == [reqs |-> <<req>>, spawn |-> {}, throws |-> 0]
Await(kind, me, eid, uuid) ==
  [reqs |-> <<>>,
   spawn |-> {[kind |-> kind, by |-> me, eid |-> eid, uuid |-> uuid, gm |-> NULL]},
   throws |-> 0]
TypeError == [reqs |-> <<>>, spawn |-> {}, throws |-> 1]

\* Variant of #onTokenEnter without the test of event.user.isSelf.
StatusEffectOnTokenEnterUngated(this, event, me) ==
  IF GetActor(event) = NULL \/ this.statusId = NULL THEN Nothing
  ELSE Issue(ToggleReq(me, event.eid, this.statusId, "true", this.overlay))

\* StatusEffectRegionBehaviorType.#onTokenEnter, run by participant `me`
StatusEffectOnTokenEnter(this, event, me) ==
  IF GetActor(event) = NULL \/ this.statusId = NULL THEN Nothing
  ELSE IF event.user # me THEN Nothing
  ELSE Issue(ToggleReq(me, event.eid, this.statusId, "true", this.overlay))

\* Variant of #onTokenExit with the toggle call copied from #onTokenEnter unchanged.
StatusEffectOnTokenExitCopied(this, event, me) ==
  IF GetActor(event) = NULL \/ this.statusId = NULL THEN Nothing
  ELSE IF event.user # me THEN Nothing
  ELSE Issue(ToggleReq(me, event.eid, this.statusId, "true", this.overlay))

\* StatusEffectRegionBehaviorType.#onTokenExit
StatusEffectOnTokenExit(this, event, me) ==
  IF GetActor(event) = NULL \/ this.statusId = NULL THEN Nothing
  ELSE IF event.user # me THEN Nothing
  ELSE Issue(ToggleReq(me, event.eid, this.statusId, "false", FALSE))

\* Variant of _handleRegionEvent without the check of the actor.
StatusEffectEventsHandleUnchecked(this, event, me) ==
  IF this.statusId = NULL THEN Nothing
  ELSE LET active == IF this.action = "apply" THEN "true"
                     ELSE IF this.action = "remove" THEN "false" ELSE "undef"
       IN Issue(ToggleReq(me, event.eid, this.statusId, active, this.overlay))

\* Variant of _handleRegionEvent with the self gate of the enter/exit behavior.
StatusEffectEventsHandleSelfGated(this, event, me) ==
  IF GetActor(event) = NULL \/ this.statusId = NULL THEN Nothing
  ELSE IF event.user # me THEN Nothing
  ELSE LET active == IF this.action = "apply" THEN "true"
                     ELSE IF this.action = "remove" THEN "false" ELSE "undef"
       IN Issue(ToggleReq(me, event.eid, this.statusId, active, this.overlay))

\* StatusEffectEventsRegionBehaviorType._handleRegionEvent
StatusEffectEventsHandle(this, event, me) ==
  IF GetActor(event) = NULL \/ this.statusId = NULL THEN Nothing
  ELSE LET active == IF this.action = "apply" THEN "true"
                     ELSE IF this.action = "remove" THEN "false" ELSE "undef"
       IN Issue(ToggleReq(me, event.eid, this.statusId, active, this.overlay))

\* Variant of applyEffectToActor that never looks for an existing effect.
applyEffectToActorAlwaysCreates(resolved, uuid, effs, origin, me, eid, now) ==
  IF ~resolved THEN TypeError
  ELSE Issue(CreateReq(me, eid,
         [Template(uuid) EXCEPT !.disabled = FALSE, !.transfer = FALSE,
                                !.origin = origin]))

\* Variant of applyEffectToActor whose effectData is effect.toObject() alone: the
\* clone keeps the template's disabled and transfer flags.
applyEffectToActorPlainClone(resolved, uuid, effs, origin, me, eid, now) ==
  LET i == FindByOrigin(effs, origin)
  IN IF i # 0
       THEN IF ~resolved THEN TypeError
            ELSE Issue(UpdateReq(me, eid, effs[i].id, "false", now))
       ELSE IF ~resolved THEN TypeError
            ELSE Issue(CreateReq(me, eid, [Template(uuid) EXCEPT !.origin = origin]))

\* applyEffectToActor(effect, actor, behavior), effect = await fromUuid(uuid):
\* `resolved` tells whether effect is a document or null.  Both branches dereference
\* effect (effect.constructor, effect.toObject()), which throws on null.
applyEffectToActor(resolved, uuid, effs, origin, me, eid, now) ==
  LET i == FindByOrigin(effs, origin)
  IN IF i # 0
       THEN IF ~resolved THEN TypeError
            ELSE Issue(UpdateReq(me, eid, effs[i].id, "false", now))
       ELSE IF ~resolved THEN TypeError
            ELSE Issue(CreateReq(me, eid,
                   [Template(uuid) EXCEPT !.disabled = FALSE, !.transfer = FALSE,
                                          !.origin = origin]))

\* Variant of #onTokenEnter without the test of event.user.isSelf.
ActiveEffectOnTokenEnterUngated(this, event, me) ==
  IF GetActor(event) = NULL \/ this.uuid = NULL THEN Nothing
  ELSE Await("enter", me, event.eid, this.uuid)

\* ActiveEffectRegionBehaviorType.#onTokenEnter up to `await fromUuid(this.uuid)`
ActiveEffectOnTokenEnter(this, event, me) ==
  IF GetActor(event) = NULL \/ this.uuid = NULL THEN Nothing
  ELSE IF event.user # me THEN Nothing
  ELSE Await("enter", me, event.eid, this.uuid)

\* Variant of #onTokenExit with the test of this.disable inverted.
ActiveEffectOnTokenExitInverted(this, event, effs, me) ==
  IF GetActor(event) = NULL \/ this.uuid = NULL THEN Nothing
  ELSE IF event.user # me THEN Nothing
  ELSE LET i == FindByOrigin(effs, BehaviorUuid)
       IN IF i # 0 /\ ~this.disable
            THEN Issue(UpdateReq(me, event.eid, effs[i].id, "true", -1))
          ELSE IF i # 0 THEN Issue(DeleteReq(me, event.eid, effs[i].id))
          ELSE Nothing

\* ActiveEffectRegionBehaviorType.#onTokenExit
ActiveEffectOnTokenExit(this, event, effs, me) ==
  IF GetActor(event) = NULL \/ this.uuid = NULL THEN Nothing
  ELSE IF event.user # me THEN Nothing
  ELSE LET i == FindByOrigin(effs, BehaviorUuid)
       IN IF i # 0 /\ this.disable
            THEN Issue(UpdateReq(me, event.eid, effs[i].id, "true", -1))
          ELSE IF i # 0 THEN Issue(DeleteReq(me, event.eid, effs[i].id))
          ELSE Nothing

\* Variant of #onEnableDisable that calls update without testing existingEffect.
onEnableDisableUnchecked(this, event, effs, me, disabled) ==
  LET i == GetName(effs, this.name)
  IN IF i # 0 THEN Issue(UpdateReq(me, event.eid, effs[i].id, disabled, -1))
     ELSE TypeError

\* ActiveEffectEventsRegionBehaviorType.#onEnableDisable(actor, disabled)
onEnableDisable(this, event, effs, me, disabled) ==
  LET i == GetName(effs, this.name)
  IN IF i # 0 THEN Issue(UpdateReq(me, event.eid, effs[i].id, disabled, -1))
     ELSE Nothing

\* The action dispatch of _handleRegionEvent (the switch), past the guards.
AfterGate(this, event, effs, me) ==
  IF this.action = "add" THEN Await("add", me, event.eid, this.uuid)
  ELSE IF this.action = "resetDuration"
    THEN Await("resetDuration", me, event.eid, this.uuid)
  ELSE IF this.action = "enable" THEN onEnableDisable(this, event, effs, me, "false")
  ELSE IF this.action = "disable" THEN onEnableDisable(this, event, effs, me, "true")
  ELSE IF this.action = "delete"
    THEN LET i == GetName(effs, this.name)
         IN IF i # 0 THEN Issue(DeleteReq(me, event.eid, effs[i].id)) ELSE Nothing
  ELSE Nothing

\* Variant of _handleRegionEvent without the active-GM gate.
ActiveEffectEventsHandleUngated(this, event, effs, me, gm) ==
  IF GetActor(event) = NULL THEN Nothing
  ELSE AfterGate(this, event, effs, me)

\* Variant of _handleRegionEvent gated on event.user.isSelf, as the enter/exit
\* behaviors are.
ActiveEffectEventsHandleSelfGated(this, event, effs, me, gm) ==
  IF GetActor(event) = NULL THEN Nothing
  ELSE IF event.user # me THEN Nothing
  ELSE AfterGate(this, event, effs, me)

\* ActiveEffectEventsRegionBehaviorType._handleRegionEvent up to its first await;
\* gm is game.users.activeGM as participant `me` sees it.
ActiveEffectEventsHandle(this, event, effs, me, gm) ==
  IF GetActor(event) = NULL THEN Nothing
  ELSE IF gm # me THEN Nothing
  ELSE AfterGate(this, event, effs, me)

\* Variant of #onResetDuration whose patch is the one applyEffectToActor sends
\* (the initial duration and disabled: false).
onResetDurationEnables(resolved, uuid, effs, me, eid, now) ==
  IF ~resolved THEN TypeError
  ELSE LET i == GetName(effs, Template(uuid).name)
       IN IF i # 0 THEN Issue(UpdateReq(me, eid, effs[i].id, "false", now))
          ELSE Nothing

\* ActiveEffectEventsRegionBehaviorType.#onResetDuration after `await fromUuid(this.uuid)`:
\* effect.name throws on null.
onResetDuration(resolved, uuid, effs, me, eid, now) ==
  IF ~resolved THEN TypeError
  ELSE LET i == GetName(effs, Template(uuid).name)
       IN IF i # 0 THEN Issue(UpdateReq(me, eid, effs[i].id, "keep", now))
          ELSE Nothing

\* ------------------------------------------------------ handler actions
\* The event records after the requests of `out` were issued for event eid.
Wrote(evs, eid, out) ==
  [i \in DOMAIN evs |->
     IF evs[i].eid = eid
       THEN [evs[i] EXCEPT !.writes = @ + Len(out.reqs)]
       ELSE evs[i]]

\* Requests stamped with the coordinator their issuer saw when the event reached it.
Stamp(reqs, gm) == [k \in DOMAIN reqs |-> [reqs[k] EXCEPT !.gm = gm]]

\* Participant p runs a handler on the oldest event it has not handled, with outcome out.
Deliver(p, i, out) ==
  /\ inflight' = Wrote([inflight EXCEPT ![i].todo = @ \ {p}], inflight[i].eid, out)
  /\ pending' = pending \o Stamp(out.reqs, ActiveGM(connected))
  /\ tasks' = tasks \cup {[t EXCEPT !.gm = ActiveGM(connected)] : t \in out.spawn}
  /\ thrown' = thrown + out.throws
  /\ UNCHANGED <<connected, behavior, sheetError, worldTime, effects, statuses, nextId,
                 nEvents>>

StatusEffectEnter(p) ==
  LET i == NextFor(p)
  IN /\ i # 0
     /\ behavior.type = "statusEffect"
     /\ inflight[i].name = "tokenEnter"
     /\ \E event \in EventObjects(inflight[i]) :
          Deliver(p, i, StatusEffectOnTokenEnter(behavior, event, p))

StatusEffectExit(p) ==
  LET i == NextFor(p)
  IN /\ i # 0
     /\ behavior.type = "statusEffect"
     /\ inflight[i].name = "tokenExit"
     /\ \E event \in EventObjects(inflight[i]) :
          Deliver(p, i, StatusEffectOnTokenExit(behavior, event, p))

StatusEffectEvents(p) ==
  LET i == NextFor(p)
  IN /\ i # 0
     /\ behavior.type = "statusEffectEvents"
     /\ \E event \in EventObjects(inflight[i]) :
          Deliver(p, i, StatusEffectEventsHandle(behavior, event, p))

ActiveEffectEnter(p) ==
  LET i == NextFor(p)
  IN /\ i # 0
     /\ behavior.type = "activeEffect"
     /\ inflight[i].name = "tokenEnter"
     /\ \E event \in EventObjects(inflight[i]) :
          Deliver(p, i, ActiveEffectOnTokenEnter(behavior, event, p))

ActiveEffectExit(p) ==
  LET i == NextFor(p)
  IN /\ i # 0
     /\ behavior.type = "activeEffect"
     /\ inflight[i].name = "tokenExit"
     /\ \E event \in EventObjects(inflight[i]) :
          Deliver(p, i, ActiveEffectOnTokenExit(behavior, event, effects, p))

ActiveEffectEvents(p) ==
  LET i == NextFor(p)
  IN /\ i # 0
     /\ behavior.type = "activeEffectEvents"
     /\ \E event \in EventObjects(inflight[i]) :
          Deliver(p, i, ActiveEffectEventsHandle(behavior, event, effects, p,
                                                 ActiveGM(connected)))

\* Every continuation a handler can leave suspended.
TaskSpace ==
  [kind : {"enter", "add", "resetDuration"}, by : Users, eid : 1..MaxEvents,
   uuid : Uuids \cup {NULL}, gm : Users \cup {NULL}]

\* A suspended handler resumes: fromUuid has settled.
Resumed(t, out) ==
  /\ tasks' = tasks \ {t}
  /\ inflight' = Wrote(inflight, t.eid, out)
  /\ pending' = pending \o Stamp(out.reqs, t.gm)
  /\ thrown' = thrown + out.throws
  /\ UNCHANGED <<connected, behavior, sheetError, worldTime, effects, statuses, nextId,
                 nEvents>>

\* ... #onTokenEnter line 177 and _handleRegionEvent case "add" line 256
ResumeApply(t) ==
  /\ t \in tasks
  /\ t.kind \in {"enter", "add"}
  /\ Resumed(t, applyEffectToActor(Resolves(t.uuid), t.uuid, effects, BehaviorUuid,
                                   t.by, t.eid, worldTime))

\* ... #onResetDuration lines 276-278
ResumeResetDuration(t) ==
  /\ t \in tasks
  /\ t.kind = "resetDuration"
  /\ Resumed(t, onResetDuration(Resolves(t.uuid), t.uuid, effects, t.by, t.eid,
                                worldTime))

\* ----------------------------------------------------------- the host
\* actor.toggleStatusEffect(statusId, {active, overlay}) as the host carries it out:
\* active true / false forces the status on / off, undefined flips it; the overlay flag
\* is used when the status is switched on.
ToggledStatus(cur, active, overlay) ==
  IF cur = "off"
    THEN IF active = "false" THEN "off" ELSE IF overlay THEN "overlay" ELSE "on"
    ELSE IF active = "true" THEN cur ELSE "off"

\* existingEffect.update(patch) / existingEffect.delete() / ActiveEffect.create(data)
\* as the host carries them out on actor.effects; a request for a document that is
\* gone changes nothing.
Committed(effs, r, id) ==
  LET I == {i \in DOMAIN effs : effs[i].id = r.id}
  IN IF r.kind = "create"
       THEN Append(effs, [id |-> id, name |-> r.name, origin |-> r.origin,
                          disabled |-> (r.disabled = "true"), transfer |-> r.transfer,
                          start |-> r.start])
     ELSE IF I = {} THEN effs
     ELSE LET i == Min(I)
          IN IF r.kind = "delete" THEN Remove(effs, i)
             ELSE [effs EXCEPT ![i].disabled = IF r.disabled = "keep" THEN @
                                               ELSE (r.disabled = "true"),
                               ![i].start = IF r.start = -1 THEN @ ELSE r.start]

\* The host carries out the oldest request.
Commit ==
  /\ pending # <<>>
  /\ LET r == Head(pending)
     IN IF r.kind = "toggle"
          THEN /\ statuses' = [statuses EXCEPT ![r.statusId] =
                                 ToggledStatus(@, r.active, r.overlay)]
               /\ UNCHANGED <<effects, nextId>>
          ELSE /\ effects' = Committed(effects, r, nextId)
               /\ nextId' = IF r.kind = "create" THEN nextId + 1 ELSE nextId
               /\ UNCHANGED statuses
  /\ pending' = Tail(pending)
  /\ UNCHANGED <<connected, behavior, sheetError, worldTime, inflight, tasks, thrown,
                 nEvents>>

\* ----------------------------------------------------------------- Next
Next ==
  \/ \E s \in StatusIds \cup {NULL}, o \in BOOLEAN : SaveStatusEffect(s, o)
  \/ \E s \in StatusIds \cup {NULL}, a \in SEEActions, o \in BOOLEAN :
       SaveStatusEffectEvents(s, a, o)
  \/ \E u \in Uuids \cup {NULL}, d \in BOOLEAN : SaveActiveEffect(u, d)
  \/ \E a \in AEEActions \cup {NULL}, u \in Uuids \cup {NULL}, n \in CfgNames \cup {NULL} :
       SaveActiveEffectEvents(a, u, n)
  \/ \E n \in EventNames, u \in Users, a \in {NULL, "A"} : Dispatch(n, u, a)
  \/ \E p \in Users : StatusEffectEnter(p)
  \/ \E p \in Users : StatusEffectExit(p)
  \/ \E p \in Users : StatusEffectEvents(p)
  \/ \E p \in Users : ActiveEffectEnter(p)
  \/ \E p \in Users : ActiveEffectExit(p)
  \/ \E p \in Users : ActiveEffectEvents(p)
  \/ \E t \in TaskSpace : ResumeApply(t)
  \/ \E t \in TaskSpace : ResumeResetDuration(t)
  \/ Commit
  \/ Retire

Spec == Init /\ [][Next]_vars

\* ======================================================================
\* Properties
\* ======================================================================
\* The effects on the actor that came from the region's behavior.
Own(effs) == {i \in DOMAIN effs : effs[i].origin = BehaviorUuid}

\* The event participant p handles next.
EvFor(p) == inflight[NextFor(p)]

\* This step issued exactly one request / no request.
IssuedOne == Len(pending') = Len(pending) + 1 /\ SubSeq(pending', 1, Len(pending)) = pending
IssuedNone == pending' = pending
Issued == pending'[Len(pending')]

\* This step left the actor, the suspended handlers and the error count alone.
Quiet == IssuedNone /\ tasks' = tasks /\ thrown' = thrown /\ effects' = effects
         /\ statuses' = statuses

\* The ids and origins of the effects, in order.
Shape(effs) == [i \in DOMAIN effs |-> <<effs[i].id, effs[i].origin, effs[i].name>>]

\* The effect with the given id, as a set (empty when it is gone).
ById(effs, id) == {effs[i] : i \in {j \in DOMAIN effs : effs[j].id = id}}

\* The continuation a token-enter / add / resetDuration leaves suspended at its await.
Suspended(kind, p, ev) ==
  [kind |-> kind, by |-> p, eid |-> ev.eid, uuid |-> behavior.uuid,
   gm |-> ActiveGM(connected)]

\* --------------------------------------------------------------------
\* C1 (as stated): a token-enter handled by the causing participant while the actor
\* holds exactly one effect of this behavior goes on to its continuation, and the
\* continuation creates nothing and requests an update of that effect.
C1_SecondEnterAlwaysUpdates ==
  [][/\ \A p \in Users :
          (ActiveEffectEnter(p) /\ EvFor(p).user = p /\ EvFor(p).actor # NULL
             /\ Cardinality(Own(effects)) = 1) =>
            tasks' # tasks
     /\ \A t \in tasks :
          (ResumeApply(t) /\ t.kind = "enter" /\ Cardinality(Own(effects)) = 1) =>
            /\ IssuedOne
            /\ Issued.kind = "update"
            /\ Issued.id = effects[CHOOSE i \in Own(effects) : TRUE].id]_vars

\* C1 (amended): a token-enter handled by the causing participant while the actor holds
\* exactly one effect of this behavior never requests a create.  When the behavior's
\* uuid is set and resolves, it requests exactly one update of that effect (disabled
\* false, start = now); when the uuid is unset or does not resolve it requests nothing.
\* The host's commit of an update keeps the effects and their origins, so the actor
\* still holds exactly one effect of this behavior.
C1_SecondEnterUpdatesFirst ==
  [][/\ \A p \in Users :
          (ActiveEffectEnter(p) /\ Cardinality(Own(effects)) = 1) =>
            /\ IssuedNone /\ effects' = effects /\ thrown' = thrown
            /\ tasks' = IF EvFor(p).user = p /\ EvFor(p).actor # NULL
                           /\ behavior.uuid # NULL
                          THEN tasks \cup {Suspended("enter", p, EvFor(p))}
                          ELSE tasks
     /\ \A t \in tasks :
          (ResumeApply(t) /\ t.kind = "enter" /\ Cardinality(Own(effects)) = 1) =>
            /\ effects' = effects
            /\ IF Resolves(t.uuid)
                 THEN /\ IssuedOne
                      /\ Issued.kind = "update"
                      /\ Issued.id = effects[CHOOSE i \in Own(effects) : TRUE].id
                      /\ Issued.disabled = "false"
                      /\ Issued.start = worldTime
                 ELSE IssuedNone
     /\ (Commit /\ Head(pending).kind = "update") =>
          /\ Shape(effects') = Shape(effects)
          /\ \A e \in ById(effects', Head(pending).id) :
               /\ Head(pending).disabled = "false" => ~e.disabled
               /\ Head(pending).start # -1 => e.start = Head(pending).start]_vars

\* C1 witness: a second enter found the first enter's effect and asked for its update.
C1_Witness ==
  /\ behavior.type = "activeEffect"
  /\ nEvents = 2
  /\ Cardinality(Own(effects)) = 1
  /\ \E k \in DOMAIN pending :
       /\ pending[k].kind = "update" /\ pending[k].eid = 2 /\ pending[k].disabled = "false"
       /\ pending[k].id = effects[CHOOSE i \in Own(effects) : TRUE].id

\* --------------------------------------------------------------------
\* C2 (as stated): a token-exit handled by the causing participant while the actor holds
\* an effect of this behavior requests its delete (disable = false) or its update to
\* disabled = true (disable = true).
C2_ExitAlwaysRemoves ==
  [][\A p \in Users :
       (ActiveEffectExit(p) /\ EvFor(p).user = p /\ EvFor(p).actor # NULL
          /\ Own(effects) # {}) =>
         /\ IssuedOne
         /\ Issued.kind = IF behavior.disable THEN "update" ELSE "delete"]_vars

\* C2 (amended): a token-exit handled by the causing participant, with the behavior's
\* uuid set, while the actor holds an effect of this behavior: with disable = false it
\* requests the delete of the first such effect and the host's commit removes that
\* document and no other; with disable = true it requests only disabled = true and the
\* commit keeps every document, the target now disabled.  With no such effect (or with
\* the uuid unset) the exit requests and changes nothing.
C2_ExitDeletesOrDisables ==
  [][/\ \A p \in Users :
          (ActiveEffectExit(p) /\ EvFor(p).user = p /\ EvFor(p).actor # NULL) =>
            /\ effects' = effects /\ tasks' = tasks /\ thrown' = thrown
            /\ IF Own(effects) = {} \/ behavior.uuid = NULL THEN IssuedNone
               ELSE LET e == effects[CHOOSE i \in Own(effects) :
                                        \A j \in Own(effects) : i <= j]
                    IN /\ IssuedOne
                       /\ Issued.id = e.id
                       /\ Issued.by = p
                       /\ IF behavior.disable
                            THEN /\ Issued.kind = "update"
                                 /\ Issued.disabled = "true"
                                 /\ Issued.start = -1
                            ELSE Issued.kind = "delete"
     /\ (Commit /\ Head(pending).kind = "delete") =>
          /\ ById(effects', Head(pending).id) = {}
          /\ \A i \in DOMAIN effects :
               effects[i].id # Head(pending).id => effects[i] \in
                 {effects'[j] : j \in DOMAIN effects'}
          /\ Len(effects') = Len(effects) - Cardinality(ById(effects, Head(pending).id))
     /\ (Commit /\ Head(pending).kind = "update" /\ Head(pending).disabled = "true"
           /\ Head(pending).start = -1) =>
          /\ Len(effects') = Len(effects)
          /\ \A i \in DOMAIN effects :
               effects'[i] = IF effects[i].id = Head(pending).id
                               THEN [effects[i] EXCEPT !.disabled = TRUE]
                               ELSE effects[i]]_vars

\* C2 witness: an exit asked for the delete of the behavior's effect, and the effect is
\* still on the actor waiting for the host.
C2_Witness ==
  /\ behavior.type = "activeEffect"
  /\ ~behavior.disable
  /\ \E k \in DOMAIN pending :
       /\ pending[k].kind = "delete"
       /\ \E i \in Own(effects) : effects[i].id = pending[k].id

\* --------------------------------------------------------------------
\* The joint constraint of an ActiveEffectEvents configuration.
JointOk(action, uuid, name) ==
  /\ action \in {"add", "resetDuration"} => uuid # NULL
  /\ action \in {"enable", "disable", "delete"} => name # NULL

\* C3: a save of an ActiveEffectEvents configuration is rejected, with an error naming
\* the missing field and the stored configuration unchanged, exactly when the
\* submitted data has action add / resetDuration without uuid or action enable /
\* disable / delete without name; every other submission is stored as submitted.  The
\* stored configuration satisfies the joint constraint in every state, so no handler
\* ever runs with a violating one.
C3_JointValidation ==
  [][/\ behavior.type = "activeEffectEvents" =>
          /\ JointOk(behavior.action, behavior.uuid, behavior.name)
          /\ JointOk(behavior'.action, behavior'.uuid, behavior'.name)
     /\ \A a \in AEEActions \cup {NULL}, u \in Uuids \cup {NULL},
           n \in CfgNames \cup {NULL} :
          SaveActiveEffectEvents(a, u, n) =>
            IF JointOk(a, u, n)
              THEN /\ behavior'.action = a /\ behavior'.uuid = u /\ behavior'.name = n
                   /\ sheetError' = NULL
              ELSE /\ behavior' = behavior
                   /\ sheetError' = IF a \in {"add", "resetDuration"} THEN "uuid"
                                    ELSE "name"]_vars

\* C3 witness: an add with a uuid was accepted, and a later save without the required
\* field was rejected, leaving the add configuration in place.
C3_Witness ==
  /\ behavior.type = "activeEffectEvents"
  /\ behavior.action = "add" /\ behavior.uuid = "T1"
  /\ sheetError = "name"

\* --------------------------------------------------------------------
\* C4: when the participant that receives the event is not the active coordinator
\* (another participant is, or nobody), the ActiveEffectEvents handler requests no
\* create, update or delete, suspends nothing and throws nothing, whatever the action.
C4_AuthorityGate ==
  [][\A p \in Users :
       (ActiveEffectEvents(p) /\ ActiveGM(connected) # p) => Quiet]_vars

\* C4 witness: the player received an event for an actor that carries the effect the
\* configured delete names, the handler has run there, and nothing was requested.
C4_Witness ==
  /\ behavior.type = "activeEffectEvents"
  /\ behavior.action = "delete"
  /\ \E i \in DOMAIN effects : effects[i].name = behavior.name
  /\ \E k \in DOMAIN inflight :
       /\ inflight[k].actor = "A"
       /\ "pl" \in connected /\ "pl" \notin inflight[k].todo
       /\ inflight[k].writes = 0

\* --------------------------------------------------------------------
\* Every participant has run the handler for the event and no continuation of it is
\* still suspended.
Done(ev) == ev.todo = {} /\ \A t \in tasks : t.eid # ev.eid

\* The configured add / delete / enable / disable has something to act on.
MatchPresent ==
  \/ behavior.action = "add" /\ Resolves(behavior.uuid)
  \/ /\ behavior.action \in {"delete", "enable", "disable"}
     /\ \E i \in DOMAIN effects : effects[i].name = behavior.name

\* C5 (as stated): once a subscribed event with a target actor has been handled by every
\* connected participant, with a matching effect / template present, exactly one
\* mutation was requested for it, whatever the set of connected participants.
C5_ExactlyOnce ==
  \A k \in DOMAIN inflight :
    (behavior.type = "activeEffectEvents" /\ inflight[k].actor # NULL
       /\ Done(inflight[k]) /\ MatchPresent) =>
      inflight[k].writes = 1

\* C5 (amended): for one subscribed event delivered to every connected participant, the
\* mutation is requested at most once; with a target actor and a matching effect /
\* template present it is requested exactly once when the active coordinator is among
\* the connected participants, and not at all when no coordinator is connected.
C5_AtMostOnce ==
  \A k \in DOMAIN inflight :
    behavior.type = "activeEffectEvents" =>
      /\ inflight[k].writes <= 1
      /\ ActiveGM(connected) = NULL => inflight[k].writes = 0
      /\ (ActiveGM(connected) # NULL /\ inflight[k].actor # NULL /\ Done(inflight[k])
            /\ MatchPresent) =>
           inflight[k].writes = 1

\* C5 witness: both participants handled an event the player caused, and one mutation
\* was requested.
C5_Witness ==
  /\ behavior.type = "activeEffectEvents"
  /\ connected = Users
  /\ \E k \in DOMAIN inflight :
       /\ inflight[k].user = "pl" /\ inflight[k].actor = "A"
       /\ Done(inflight[k]) /\ MatchPresent
       /\ inflight[k].writes = 1

\* --------------------------------------------------------------------
\* Participant p runs one of the handlers of the four behaviors.
Handles(p) ==
  \/ StatusEffectEnter(p) \/ StatusEffectExit(p) \/ StatusEffectEvents(p)
  \/ ActiveEffectEnter(p) \/ ActiveEffectExit(p) \/ ActiveEffectEvents(p)

\* C6: a handler of any of the four behaviors, run on an event without target actor
\* (no data, no token or no actor), requests no status toggle and no document create,
\* update or delete, suspends nothing and throws nothing, whatever the configuration and
\* whoever the participant is.
C6_NoActorNoOp ==
  [][\A p \in Users : (Handles(p) /\ EvFor(p).actor = NULL) => Quiet]_vars

\* C6 witness: every participant ran the handler of a configured behavior on an event
\* without actor.
C6_Witness ==
  /\ behavior.type = "statusEffectEvents"
  /\ behavior.statusId = "S"
  /\ connected = Users
  /\ \E k \in DOMAIN inflight :
       inflight[k].actor = NULL /\ inflight[k].todo = {} /\ inflight[k].writes = 0

\* --------------------------------------------------------------------
\* C7 (as stated): when the configured uuid resolves to no document, the continuation of
\* ActiveEffect enter, of ActiveEffectEvents add and of resetDuration throws nothing,
\* requests nothing and leaves the actor's effects unchanged.
C7_FailedResolutionSilent ==
  [][\A t \in tasks :
       ((ResumeApply(t) \/ ResumeResetDuration(t)) /\ ~Resolves(t.uuid)) =>
         /\ thrown' = thrown
         /\ IssuedNone
         /\ effects' = effects]_vars

EventOf(eid) == inflight[CHOOSE k \in DOMAIN inflight : inflight[k].eid = eid]

\* C9 (as stated): every create, update or delete request was issued by the participant
\* that was the active coordinator.
C9_OnlyCoordinatorWrites ==
  \A k \in DOMAIN pending :
    pending[k].kind # "toggle" => pending[k].by = pending[k].gm

\* C9 (amended): every create, update or delete request of ActiveEffectEvents was
\* issued by the participant that was the active coordinator when the event reached it;
\* every one of ActiveEffect was issued by the participant that caused the event, which
\* need not be the coordinator.
C9_WritesByGateHolder ==
  /\ \A k \in DOMAIN pending :
       pending[k].kind # "toggle" =>
         IF behavior.type = "activeEffectEvents"
           THEN pending[k].by = pending[k].gm
           ELSE pending[k].by = EventOf(pending[k].eid).user
  /\ \A t \in tasks :
       IF behavior.type = "activeEffectEvents"
         THEN t.by = t.gm
         ELSE t.by = EventOf(t.eid).user

\* C9 witness: the player, who is not the coordinator, asked for the create of the
\* ActiveEffect behavior's effect, and the coordinator asked for nothing.
C9_Witness ==
  /\ behavior.type = "activeEffect"
  /\ connected = Users
  /\ \E k \in DOMAIN pending :
       pending[k].kind = "create" /\ pending[k].by = "pl" /\ pending[k].gm = "gm"

\* --------------------------------------------------------------------
\* C10: on the active coordinator, delete, enable and disable with a name that no
\* effect on the actor bears, and the continuation of resetDuration whose resolved
\* template's name no effect on the actor bears, request no update, delete or create,
\* and throw nothing.
C10_NoMatchNoOp ==
  [][/\ \A p \in Users :
          (ActiveEffectEvents(p) /\ ActiveGM(connected) = p /\ EvFor(p).actor # NULL
             /\ behavior.action \in {"delete", "enable", "disable"}
             /\ \A i \in DOMAIN effects : effects[i].name # behavior.name) =>
            Quiet
     /\ \A t \in tasks :
          (ResumeResetDuration(t) /\ Resolves(t.uuid)
             /\ \A i \in DOMAIN effects : effects[i].name # Template(t.uuid).name) =>
            /\ IssuedNone /\ thrown' = thrown /\ effects' = effects]_vars

\* C10 witness: the coordinator ran a delete whose name matches none of the actor's
\* effects; nothing was requested and nothing thrown.
C10_Witness ==
  /\ behavior.type = "activeEffectEvents"
  /\ behavior.action = "delete"
  /\ effects # <<>>
  /\ \A i \in DOMAIN effects : effects[i].name # behavior.name
  /\ thrown = 0
  /\ \E k \in DOMAIN inflight :
       /\ inflight[k].actor = "A"
       /\ "gm" \in connected /\ "gm" \notin inflight[k].todo
       /\ inflight[k].writes = 0

C12_OneTogglePerDelivery ==
  [][\A p \in Users :
       StatusEffectEvents(p) =>
         /\ tasks' = tasks /\ thrown' = thrown /\ statuses' = statuses
         /\ IF EvFor(p).actor # NULL /\ behavior.statusId # NULL
              THEN /\ IssuedOne
                   /\ Issued.kind = "toggle"
                   /\ Issued.by = p
                   /\ Issued.statusId = behavior.statusId
                   /\ Issued.overlay = behavior.overlay
                   /\ behavior.action \in SEEActions
                   /\ Issued.active = CASE behavior.action = "apply" -> "true"
                                         [] behavior.action = "remove" -> "false"
                                         [] behavior.action = "toggle" -> "undef"
              ELSE IssuedNone]_vars

\* C12 witness: an event the player caused was delivered to both participants and each
\* of them requested the toggle.
C12_Witness ==
  /\ behavior.type = "statusEffectEvents"
  /\ behavior.statusId = "S" /\ behavior.action = "apply" /\ behavior.overlay
  /\ connected = Users
  /\ \E k \in DOMAIN inflight :
       /\ inflight[k].user = "pl" /\ inflight[k].actor = "A"
       /\ inflight[k].todo = {} /\ inflight[k].writes = 2
  /\ \E k \in DOMAIN pending :
       pending[k].by = "gm" /\ pending[k].active = "true" /\ pending[k].overlay

\* --------------------------------------------------------------------
\* C13: when a token-enter or token-exit event is delivered to the participants of the
\* session, the StatusEffect handler requests the toggle only on the participant that
\* caused the event (and only with an actor and a statusId); on every other
\* participant, and whenever the actor or the statusId is missing, it requests nothing,
\* suspends nothing and throws nothing.  No event gets more than one toggle.
C13_SelfGating ==
  [][/\ \A p \in Users :
          (StatusEffectEnter(p) \/ StatusEffectExit(p)) =>
            /\ thrown' = thrown /\ tasks' = tasks /\ statuses' = statuses
            /\ IF EvFor(p).user = p /\ EvFor(p).actor # NULL /\ behavior.statusId # NULL
                 THEN /\ IssuedOne
                      /\ Issued.kind = "toggle"
                      /\ Issued.by = EvFor(p).user
                 ELSE IssuedNone
     /\ behavior.type = "statusEffect" =>
          \A k \in DOMAIN inflight' : inflight'[k].writes <= 1]_vars

\* C13 witness: both participants handled a token-enter the player caused, and one
\* toggle, the player's, was requested.
C13_Witness ==
  /\ behavior.type = "statusEffect"
  /\ behavior.statusId = "S"
  /\ connected = Users
  /\ \E k \in DOMAIN inflight :
       /\ inflight[k].user = "pl" /\ inflight[k].actor = "A"
       /\ inflight[k].name = "tokenEnter"
       /\ inflight[k].todo = {} /\ inflight[k].writes = 1
       /\ \E j \in DOMAIN pending :
            pending[j].eid = inflight[k].eid /\ pending[j].by = "pl"

\* --------------------------------------------------------------------
\* C14: on the active coordinator, with a target actor: enable / disable request an
\* update of the first effect bearing the configured name to disabled = false / true
\* and nothing else; delete requests the delete of that effect; the continuation of
\* resetDuration, its template resolved, requests an update of the first effect bearing
\* the template's name that restarts the duration at the current world time and does
\* not mention the disabled flag.  The host carries a request out on the one effect it
\* names: a delete removes it, an update changes the fields of its patch only, and
\* every other effect on the actor stays as it was.
C14_ActionDispatch ==
  [][/\ \A p \in Users :
          (ActiveEffectEvents(p) /\ ActiveGM(connected) = p /\ EvFor(p).actor # NULL
             /\ behavior.action \in {"enable", "disable", "delete"}
             /\ GetName(effects, behavior.name) # 0) =>
            /\ IssuedOne /\ effects' = effects /\ tasks' = tasks /\ thrown' = thrown
            /\ Issued.by = p
            /\ Issued.id = effects[GetName(effects, behavior.name)].id
            /\ effects[GetName(effects, behavior.name)].name = behavior.name
            /\ Issued.start = -1
            /\ Issued.kind = IF behavior.action = "delete" THEN "delete" ELSE "update"
            /\ Issued.disabled = CASE behavior.action = "enable" -> "false"
                                   [] behavior.action = "disable" -> "true"
                                   [] behavior.action = "delete" -> "keep"
     /\ \A t \in tasks :
          (ResumeResetDuration(t) /\ Resolves(t.uuid)
             /\ GetName(effects, Template(t.uuid).name) # 0) =>
            /\ IssuedOne /\ effects' = effects /\ thrown' = thrown
            /\ Issued.kind = "update"
            /\ Issued.by = t.by /\ t.by = t.gm
            /\ Issued.id = effects[GetName(effects, Template(t.uuid).name)].id
            /\ Issued.disabled = "keep"
            /\ Issued.start = worldTime
     /\ (Commit /\ behavior.type = "activeEffectEvents") =>
          LET r == Head(pending)
          IN /\ Cardinality({i \in DOMAIN effects : effects[i].id = r.id}) <= 1
             /\ r.kind = "delete" =>
                  effects' = SelectSeq(effects, LAMBDA e : e.id # r.id)
             /\ r.kind = "update" =>
                  /\ Len(effects') = Len(effects)
                  /\ \A i \in DOMAIN effects :
                       effects'[i] =
                         IF effects[i].id # r.id THEN effects[i]
                         ELSE [effects[i] EXCEPT
                                 !.disabled = CASE r.disabled = "true" -> TRUE
                                                [] r.disabled = "false" -> FALSE
                                                [] r.disabled = "keep" -> @,
                                 !.start = IF r.start = -1 THEN @ ELSE r.start]]_vars

\* C14 witness: a disable and then a resetDuration were carried out on the effect named
\* like the template: it is still disabled and its duration restarted at the second
\* event.
C14_Witness ==
  /\ behavior.type = "activeEffectEvents"
  /\ behavior.action = "resetDuration"
  /\ pending = <<>> /\ tasks = {}
  /\ nEvents = 2 /\ worldTime = 2
  /\ Len(effects) = 1
  /\ effects[1].name = Template("T1").name
  /\ effects[1].disabled /\ effects[1].start = 2

\* --------------------------------------------------------------------
\* C15 (as stated): on the active coordinator the continuation of an add, its template
\* resolved, requests the create of one effect stamped with the behavior's reference
\* when the actor holds no effect of this behavior, and otherwise the update of that
\* effect to disabled = false with the duration restarted; and whatever add events
\* occur, the actor never holds more than one effect with that origin.
C15_AddNeverDuplicates ==
  [][/\ \A t \in tasks :
          (ResumeApply(t) /\ t.kind = "add" /\ Resolves(t.uuid)) =>
            /\ IssuedOne
            /\ Issued.by = t.gm
            /\ IF Own(effects) = {}
                 THEN Issued.kind = "create" /\ Issued.origin = BehaviorUuid
                 ELSE /\ Issued.kind = "update"
                      /\ Issued.id = effects[Min(Own(effects))].id
                      /\ Issued.disabled = "false" /\ Issued.start = worldTime
     /\ behavior.type = "activeEffectEvents" => Cardinality(Own(effects')) <= 1]_vars

\* --------------------------------------------------------------------
\* Both events of the run are still on record, every participant has handled them, no
\* handler is suspended and the host has carried out every request.
Settled ==
  /\ nEvents = 2 /\ Len(inflight) = 2
  /\ Done(inflight[1]) /\ Done(inflight[2])
  /\ pending = <<>>

\* C16 (as stated): for the ActiveEffect behavior, whatever the order of the
\* asynchronous steps, (1) once a token-enter and then a token-exit with disable =
\* false (uuid resolvable, target actor present) are handled and every request is
\* carried out, the actor holds no effect of this behavior, and (2) the actor never
\* holds two effects of this behavior.
C16_InterleavingSafe ==
  behavior.type = "activeEffect" =>
    /\ (/\ Settled
        /\ inflight[1].name = "tokenEnter" /\ inflight[2].name = "tokenExit"
        /\ inflight[1].actor # NULL /\ inflight[2].actor # NULL
        /\ Resolves(behavior.uuid) /\ ~behavior.disable) =>
         Own(effects) = {}
    /\ Cardinality(Own(effects)) <= 1

\* --------------------------------------------------------------------
\* The effects on the actor that did not come from the region's behavior, in order.
Foreign(effs) == SelectSeq(effs, LAMBDA e : e.origin # BehaviorUuid)

\* C17: every update or delete the ActiveEffect behavior requests names an effect whose
\* origin is the behavior's own reference, and no step of its enter or exit, nor the
\* host carrying their requests out, changes or removes an effect of another origin,
\* even one cloned from the same template and bearing the same name.
C17_ForeignEffectsUntouched ==
  [][behavior.type = "activeEffect" =>
       /\ \A k \in DOMAIN pending' :
            pending'[k].kind \in {"update", "delete"} =>
              /\ pending'[k].id \notin {Foreign(effects')[i].id :
                                          i \in DOMAIN Foreign(effects')}
              /\ \A e \in ById(effects', pending'[k].id) : e.origin = BehaviorUuid
       /\ Foreign(effects') = Foreign(effects)]_vars

\* C17 witness: next to another behavior's clone of the same template, an enter created
\* this behavior's effect and an exit deleted it; the other clone is still there,
\* untouched.
C17_Witness ==
  /\ behavior.type = "activeEffect"
  /\ Settled
  /\ inflight[1].name = "tokenEnter" /\ inflight[1].writes = 1
  /\ inflight[2].name = "tokenExit" /\ inflight[2].writes = 1
  /\ ~behavior.disable
  /\ Len(effects) = 1
  /\ effects[1] = [id |-> 1, name |-> Template("T1").name, origin |-> "B2",
                    disabled |-> FALSE, transfer |-> FALSE, start |-> 0]
  /\ nextId = 3

\* --------------------------------------------------------------------
\* C18: when a token-enter or token-exit event is delivered to the participants of the
\* session, the ActiveEffect handler does nothing on a participant that did not cause
\* the event (no request, no suspended continuation, no exception); every create,
\* update or delete requested for the event comes from the participant that caused it,
\* and no event gets more than one.
C18_NoDoubleWrite ==
  [][/\ \A p \in Users :
          ((ActiveEffectEnter(p) \/ ActiveEffectExit(p)) /\ EvFor(p).user # p) => Quiet
     /\ behavior.type = "activeEffect" =>
          /\ \A k \in DOMAIN inflight' : inflight'[k].writes <= 1
          /\ \A k \in DOMAIN pending' :
               \E j \in DOMAIN inflight' :
                 /\ inflight'[j].eid = pending'[k].eid
                 /\ inflight'[j].user = pending'[k].by
          /\ \A t \in tasks' :
               \E j \in DOMAIN inflight' :
                 /\ inflight'[j].eid = t.eid
                 /\ inflight'[j].user = t.by
                 /\ inflight'[j].writes = 0]_vars

\* C18 witness: both participants handled a token-exit the player caused while the
\* actor carried the behavior's effect; the one delete requested is the player's.
C18_Witness ==
  /\ behavior.type = "activeEffect"
  /\ connected = Users
  /\ \E k \in DOMAIN inflight :
       /\ inflight[k].name = "tokenExit" /\ inflight[k].user = "pl"
       /\ inflight[k].todo = {} /\ inflight[k].writes = 1
       /\ \E j \in DOMAIN pending :
            /\ pending[j].eid = inflight[k].eid
            /\ pending[j].kind = "delete" /\ pending[j].by = "pl"

====
